---- MODULE Spec2Model ----
(***************************************************************************)
(* Model of preprocessing/automate_Rifky-Maulana.py: the penguins          *)
(* preprocessing pipeline (load_data, preprocess_penguins_data,            *)
(* save_processed_data, main).                                             *)
(*                                                                         *)
(* Strings of a categorical column are modelled by their rank in sorted    *)
(* order (1..MaxCat), measurements by small integers (1..MaxNum), a missing*)
(* field by NaN.  A standardized value is kept exactly, as the pair        *)
(* num / sqrt(den2); den2 = 0 is a division by zero.                       *)
(***************************************************************************)
EXTENDS Integers, Sequences, FiniteSets, TLC

VARIABLES
    exists,         \* file system: which candidate input paths exist
    pc,             \* position of main
    raw_data_path,  \* main's local raw_data_path
    df_raw,         \* main's local df_raw (None before/without a load)
    X,              \* main's local X
    y,              \* main's local y
    df_processed,   \* main's local df_processed
    fs_out,         \* file system: content at processed_data_path
    out,            \* console: the messages printed so far
    calls,          \* the stage functions main has called, in order
    readOutcome,    \* what pd.read_csv did in load_data
    writeOutcome,   \* what DataFrame.to_csv did in save_processed_data
    saveRet,        \* the value save_processed_data returned
    loaded_path,    \* the file_path load_data was called with
    uncaught        \* the exception that left main uncaught ("" if none)

vars == <<exists, pc, raw_data_path, df_raw, X, y, df_processed, fs_out, out,
          calls, readOutcome, writeOutcome, saveRet, loaded_path, uncaught>>

----------------------------------------------------------------------------
(* Bounds *)

MaxFileRows == 1    \* rows of an input file read by a run of main
MaxRows == 2        \* rows of a table given to preprocess_penguins_data alone
MaxCat == 2         \* distinct strings of a categorical column
MaxNum == 2         \* distinct measurements of a numeric column

----------------------------------------------------------------------------
(* Values *)

NaN == 0
None == [none |-> TRUE]
NoFile == [nofile |-> TRUE]
PartialFile == [partial |-> TRUE]
NotCalled == "not called"

Range(s) == {s[i] : i \in DOMAIN s}

primary_path == "../penguins_raw.csv"
processed_data_path == "penguins_processed.csv"
alternative_paths == <<"penguins.csv", "../penguins.csv", "penguins_raw.csv">>
CandidatePaths == {primary_path} \cup Range(alternative_paths)

CategoricalColumns == {"species", "island", "sex"}
numerical_features ==
    <<"bill_length_mm", "bill_depth_mm", "flipper_length_mm", "body_mass_g">>
NumericalColumns == Range(numerical_features)
RequiredColumns == CategoricalColumns \cup NumericalColumns
ExtraColumn == "year"
AllColumns == RequiredColumns \cup {ExtraColumn}

EncodedName(c) ==
    CASE c = "species" -> "species_encoded"
      [] c = "island" -> "island_encoded"
      [] c = "sex" -> "sex_encoded"
EncodedColumns == {EncodedName(c) : c \in CategoricalColumns}
feature_columns == numerical_features \o <<"island_encoded", "sex_encoded">>

----------------------------------------------------------------------------
(* Input files: a header (the column set) and rows.  A row differs from    *)
(* BaseRow in at most one field, which is missing or holds another value.  *)

ValuesOf(c) == IF c \in CategoricalColumns THEN 1..MaxCat ELSE 1..MaxNum
BaseRow == [c \in AllColumns |-> 1]
RowPool ==
    {BaseRow} \cup
    UNION {{[BaseRow EXCEPT ![c] = v] : v \in {NaN} \cup ValuesOf(c)} : c \in AllColumns}

\* the headers: every column present, or exactly one column absent
FileColumnSets == {AllColumns} \cup {AllColumns \ {c} : c \in AllColumns}

\* the file with header cs and the rows t, cut to the header's columns
File(cs, t) == [columns |-> cs, data |-> [i \in DOMAIN t |-> [c \in cs |-> t[i][c]]]]

ReadOutcomes == {"ok", "FileNotFoundError", "Exception"}
WriteOutcomes == {"ok", "PermissionError", "DiskFull"}

----------------------------------------------------------------------------
(* pandas / scikit-learn primitives the script calls *)

\* pd.read_csv: the table of a file, rows labelled 0..n-1
read_csv(file) ==
    [columns |-> file.columns,
     index |-> [i \in 1..Len(file.data) |-> i - 1],
     data |-> file.data]

isnull(df, i) == {c \in df.columns : df.data[i][c] = NaN}

\* the positions i..n of df whose row has no missing field, ascending
RECURSIVE KeptFrom(_, _)
KeptFrom(df, i) ==
    IF i > Len(df.data) THEN <<>>
    ELSE IF isnull(df, i) # {} THEN KeptFrom(df, i + 1)
    ELSE <<i>> \o KeptFrom(df, i + 1)

\* a dropna that looks only at the columns the pipeline uses
RECURSIVE KeptFromRequired(_, _)
KeptFromRequired(df, i) ==
    IF i > Len(df.data) THEN <<>>
    ELSE IF isnull(df, i) \cap RequiredColumns # {} THEN KeptFromRequired(df, i + 1)
    ELSE <<i>> \o KeptFromRequired(df, i + 1)

dropna_subset(df) ==
    LET k == KeptFromRequired(df, 1)
    IN [columns |-> df.columns,
        index |-> [j \in 1..Len(k) |-> df.index[k[j]]],
        data |-> [j \in 1..Len(k) |-> df.data[k[j]]]]

\* DataFrame.dropna(): rows with any missing field removed, labels kept
dropna(df) ==
    LET k == KeptFrom(df, 1)
    IN [columns |-> df.columns,
        index |-> [j \in 1..Len(k) |-> df.index[k[j]]],
        data |-> [j \in 1..Len(k) |-> df.data[k[j]]]]

Column(df, c) == [j \in 1..Len(df.data) |-> df.data[j][c]]

\* a hand-written value map instead of a fitted encoder
LabelEncoder_fixed_map(values) == [j \in DOMAIN values |-> values[j] - 1]

\* LabelEncoder().fit_transform: classes_ are the sorted distinct values, a
\* value's code is its position in classes_
LabelEncoder_fit_transform(values) ==
    LET classes == Range(values)
    IN [j \in DOMAIN values |-> Cardinality({u \in classes : u < values[j]})]

RECURSIVE SumSeq(_)
SumSeq(s) == IF Len(s) = 0 THEN 0 ELSE Head(s) + SumSeq(Tail(s))

\* (x - mean) / sqrt(var) with no treatment of a constant column
StandardScaler_unguarded(values) ==
    LET n == Len(values)
        S == SumSeq(values)
        Q == SumSeq([j \in DOMAIN values |-> values[j] * values[j]])
    IN [j \in DOMAIN values |-> [num |-> n * values[j] - S, den2 |-> n * Q - S * S]]

\* StandardScaler().fit_transform on one column: mean_ = S/n, var_ = (nQ - S^2)/n^2,
\* scale_ = sqrt(var_) with a zero scale replaced by 1; the result
\* (x - mean_)/scale_ is (n x - S)/sqrt(n Q - S^2), or (n x - S)/sqrt(n^2) when
\* the column is constant
StandardScaler_fit_transform(values) ==
    LET n == Len(values)
        S == SumSeq(values)
        Q == SumSeq([j \in DOMAIN values |-> values[j] * values[j]])
        var == n * Q - S * S
        scale2 == IF var = 0 THEN n * n ELSE var
    IN [j \in DOMAIN values |-> [num |-> n * values[j] - S, den2 |-> scale2]]

\* DataFrame.to_csv(index=False): header and rows, without the row labels
to_csv(df) == [columns |-> df.columns, data |-> df.data]

----------------------------------------------------------------------------
(* load_data *)

\* load_data whose only handler is the FileNotFoundError one
load_data_no_generic_handler(file_path, outcome, file) ==
    CASE outcome = "ok" ->
            [raised |-> FALSE, exc |-> "", ret |-> read_csv(file),
             out |-> <<"Data loaded successfully">>]
      [] outcome = "FileNotFoundError" ->
            [raised |-> FALSE, exc |-> "", ret |-> None, out |-> <<"File not found">>]
      [] OTHER ->
            [raised |-> TRUE, exc |-> "Exception", ret |-> None, out |-> <<>>]

load_data(file_path, outcome, file) ==
    CASE outcome = "ok" ->
            [raised |-> FALSE, exc |-> "", ret |-> read_csv(file),
             out |-> <<"Data loaded successfully">>]
      [] outcome = "FileNotFoundError" ->
            [raised |-> FALSE, exc |-> "", ret |-> None, out |-> <<"File not found">>]
      [] OTHER ->
            [raised |-> FALSE, exc |-> "", ret |-> None, out |-> <<"Error loading data">>]

----------------------------------------------------------------------------
(* preprocess_penguins_data *)

Raise(exc, printed) ==
    [raised |-> TRUE, exc |-> exc, out |-> printed,
     X |-> None, y |-> None, df_processed |-> None]

SourceOf(e) == CHOOSE c \in CategoricalColumns : EncodedName(c) = e

preprocess_penguins_data(df) ==
    IF df = None THEN Raise("AttributeError", <<>>)
    ELSE
    LET kept == dropna(df)
        rows == 1..Len(kept.data)
        printed == <<"Missing values before", "Missing values after">>
    IN  IF ~ (CategoricalColumns \subseteq df.columns) THEN Raise("KeyError", printed)
        ELSE IF ~ (NumericalColumns \subseteq df.columns) THEN Raise("KeyError", printed)
        ELSE IF rows = {} THEN Raise("ValueError", printed)
        ELSE
        LET code == [c \in CategoricalColumns |-> LabelEncoder_fit_transform(Column(kept, c))]
            scaled == [c \in NumericalColumns |-> StandardScaler_fit_transform(Column(kept, c))]
            cols == df.columns \cup EncodedColumns
            cell(j, c) ==
                IF c \in NumericalColumns THEN scaled[c][j]
                ELSE IF c \in EncodedColumns THEN code[SourceOf(c)][j]
                ELSE kept.data[j][c]
            table == [columns |-> cols,
                      index |-> kept.index,
                      data |-> [j \in rows |-> [c \in cols |-> cell(j, c)]]]
        IN [raised |-> FALSE, exc |-> "",
            out |-> printed \o <<"Final dataset shape", "Feature matrix shape",
                                 "Target distribution">>,
            X |-> [columns |-> Range(feature_columns),
                   index |-> table.index,
                   data |-> [j \in rows |->
                               [c \in Range(feature_columns) |-> table.data[j][c]]]],
            y |-> [index |-> table.index,
                   data |-> [j \in rows |-> table.data[j]["species_encoded"]]],
            df_processed |-> table]

----------------------------------------------------------------------------
(* save_processed_data *)

\* save_processed_data that returns True whatever the write did
save_processed_data_always_true(df, output_path, outcome) ==
    IF df # None /\ outcome = "ok"
    THEN [raised |-> FALSE, exc |-> "", ret |-> TRUE, out |-> <<"Processed data saved to">>,
          file |-> to_csv(df)]
    ELSE [raised |-> FALSE, exc |-> "", ret |-> TRUE, out |-> <<"Error saving data">>,
          file |-> IF df # None /\ outcome = "DiskFull" THEN PartialFile ELSE NoFile]

save_processed_data(df, output_path, outcome) ==
    IF df # None /\ outcome = "ok"
    THEN [raised |-> FALSE, exc |-> "", ret |-> TRUE, out |-> <<"Processed data saved to">>,
          file |-> to_csv(df)]
    ELSE [raised |-> FALSE, exc |-> "", ret |-> FALSE, out |-> <<"Error saving data">>,
          file |-> IF df # None /\ outcome = "DiskFull" THEN PartialFile ELSE NoFile]

----------------------------------------------------------------------------
(* main *)

\* the for loop without its break: the last existing alternative wins
RECURSIVE for_alternative_paths_no_break(_, _, _)
for_alternative_paths_no_break(ex, i, sofar) ==
    IF i > Len(alternative_paths) THEN sofar
    ELSE IF ex[alternative_paths[i]]
         THEN for_alternative_paths_no_break(ex, i + 1,
                                             [found |-> TRUE, path |-> alternative_paths[i]])
         ELSE for_alternative_paths_no_break(ex, i + 1, sofar)

\* lines 89-95: the first alternative that exists, or the else branch
RECURSIVE for_alternative_paths(_, _, _)
for_alternative_paths(ex, i, sofar) ==
    IF i > Len(alternative_paths) THEN sofar
    ELSE IF ex[alternative_paths[i]]
         THEN [found |-> TRUE, path |-> alternative_paths[i]]
         ELSE for_alternative_paths(ex, i + 1, sofar)

main_resolve_no_break(ex) ==
    IF ex[primary_path]
    THEN [pc |-> "load", path |-> primary_path, out |-> <<"Starting">>]
    ELSE LET r == for_alternative_paths_no_break(
                      ex, 1, [found |-> FALSE, path |-> primary_path])
         IN IF r.found
            THEN [pc |-> "load", path |-> r.path, out |-> <<"Starting">>]
            ELSE [pc |-> "returned", path |-> primary_path,
                  out |-> <<"Raw data file not found">>]

\* the else branch of the loop without its return
main_resolve_no_return(ex) ==
    IF ex[primary_path]
    THEN [pc |-> "load", path |-> primary_path, out |-> <<"Starting">>]
    ELSE LET r == for_alternative_paths(ex, 1, [found |-> FALSE, path |-> primary_path])
         IN IF r.found
            THEN [pc |-> "load", path |-> r.path, out |-> <<"Starting">>]
            ELSE [pc |-> "load", path |-> primary_path,
                  out |-> <<"Raw data file not found", "Starting">>]

\* lines 77-97: the path main loads, or the return of line 95
main_resolve(ex) ==
    IF ex[primary_path]
    THEN [pc |-> "load", path |-> primary_path, out |-> <<"Starting">>]
    ELSE LET r == for_alternative_paths(ex, 1, [found |-> FALSE, path |-> primary_path])
         IN IF r.found
            THEN [pc |-> "load", path |-> r.path, out |-> <<"Starting">>]
            ELSE [pc |-> "returned", path |-> primary_path,
                  out |-> <<"Raw data file not found">>]

main_after_load_no_check(res) == IF res.raised THEN "crashed" ELSE "preprocess"

\* lines 103-104
main_after_load(res) ==
    IF res.raised THEN "crashed"
    ELSE IF res.ret = None THEN "returned" ELSE "preprocess"

main_after_preprocess_swallow(res) == "save"

\* line 108: nothing catches what preprocess_penguins_data raises
main_after_preprocess(res) == IF res.raised THEN "crashed" ELSE "save"

\* line 112: the value save_processed_data returns is discarded
main_after_save(res) == IF res.raised THEN "crashed" ELSE "complete"

----------------------------------------------------------------------------
(* The run of main *)

Init ==
    /\ exists \in [CandidatePaths -> BOOLEAN]
    /\ pc = "resolve"
    /\ raw_data_path = primary_path
    /\ df_raw = None
    /\ X = None
    /\ y = None
    /\ df_processed = None
    /\ fs_out = NoFile
    /\ out = <<>>
    /\ calls = <<>>
    /\ readOutcome = NotCalled
    /\ writeOutcome = NotCalled
    /\ saveRet = FALSE
    /\ loaded_path = NotCalled
    /\ uncaught = ""

ResolvePath ==
    /\ pc = "resolve"
    /\ LET r == main_resolve(exists)
       IN /\ pc' = r.pc
          /\ raw_data_path' = r.path
          /\ out' = out \o r.out
    /\ UNCHANGED <<exists, df_raw, X, y, df_processed, fs_out, calls,
                   readOutcome, writeOutcome, saveRet, loaded_path, uncaught>>

LoadData ==
    /\ pc = "load"
    /\ \E outcome \in ReadOutcomes, cs \in FileColumnSets, k \in 0..MaxFileRows :
       \E t \in [1..k -> RowPool] :
         LET res == load_data(raw_data_path, outcome, File(cs, t))
         IN /\ readOutcome' = outcome
            /\ df_raw' = res.ret
            /\ out' = out \o <<"1. Loading raw data">> \o res.out
            /\ pc' = main_after_load(res)
            /\ uncaught' = IF res.raised THEN res.exc ELSE uncaught
    /\ loaded_path' = raw_data_path
    /\ calls' = Append(calls, "load")
    /\ UNCHANGED <<exists, raw_data_path, X, y, df_processed, fs_out,
                   writeOutcome, saveRet>>

Preprocess ==
    /\ pc = "preprocess"
    /\ LET res == preprocess_penguins_data(df_raw)
       IN /\ X' = res.X
          /\ y' = res.y
          /\ df_processed' = res.df_processed
          /\ out' = out \o <<"2. Preprocessing data">> \o res.out
          /\ pc' = main_after_preprocess(res)
          /\ uncaught' = IF res.raised THEN res.exc ELSE uncaught
    /\ calls' = Append(calls, "preprocess")
    /\ UNCHANGED <<exists, raw_data_path, df_raw, fs_out, readOutcome,
                   writeOutcome, saveRet, loaded_path>>

SaveData ==
    /\ pc = "save"
    /\ \E outcome \in WriteOutcomes :
         LET res == save_processed_data(df_processed, processed_data_path, outcome)
         IN /\ writeOutcome' = outcome
            /\ saveRet' = res.ret
            /\ fs_out' = IF res.file = NoFile THEN fs_out ELSE res.file
            /\ out' = out \o <<"3. Saving processed data">> \o res.out
            /\ pc' = main_after_save(res)
            /\ uncaught' = IF res.raised THEN res.exc ELSE uncaught
    /\ calls' = Append(calls, "save")
    /\ UNCHANGED <<exists, raw_data_path, df_raw, X, y, df_processed, readOutcome,
                   loaded_path>>

Complete ==
    /\ pc = "complete"
    /\ out' = out \o <<"Preprocessing Pipeline Completed Successfully",
                       "Processed data available at",
                       "Features shape", "Target shape">>
    /\ pc' = "returned"
    /\ UNCHANGED <<exists, raw_data_path, df_raw, X, y, df_processed, fs_out,
                   calls, readOutcome, writeOutcome, saveRet, loaded_path, uncaught>>

Next ==
    \/ ResolvePath
    \/ LoadData
    \/ Preprocess
    \/ SaveData
    \/ Complete

Spec == Init /\ [][Next]_vars

----------------------------------------------------------------------------
(* preprocess_penguins_data on its own: main stands after a successful load *)
(* of any file of up to MaxRows rows.                                       *)

InitPre ==
    /\ exists = [p \in CandidatePaths |-> TRUE]
    /\ pc = "preprocess"
    /\ raw_data_path = primary_path
    /\ \E cs \in FileColumnSets, k \in 0..MaxRows :
       \E t \in [1..k -> RowPool] : df_raw = read_csv(File(cs, t))
    /\ X = None
    /\ y = None
    /\ df_processed = None
    /\ fs_out = NoFile
    /\ out = <<"Starting", "1. Loading raw data", "Data loaded successfully">>
    /\ calls = <<"load">>
    /\ readOutcome = "ok"
    /\ writeOutcome = NotCalled
    /\ saveRet = FALSE
    /\ loaded_path = primary_path
    /\ uncaught = ""

NextPre == Preprocess

SpecPre == InitPre /\ [][NextPre]_vars

----------------------------------------------------------------------------
(* Claims *)

\* C1: the path handed to load_data is the first existing one in the order
\* '../penguins_raw.csv', 'penguins.csv', '../penguins.csv', 'penguins_raw.csv',
\* and load_data is reached whenever one of them exists.
C1_FirstExistingPathLoaded ==
    LET order == <<"../penguins_raw.csv", "penguins.csv", "../penguins.csv",
                   "penguins_raw.csv">>
    IN /\ loaded_path # NotCalled =>
            \E j \in 1..4 :
                /\ order[j] = loaded_path
                /\ exists[order[j]]
                /\ \A i \in 1..(j - 1) : ~ exists[order[i]]
       /\ (pc # "resolve" /\ \E j \in 1..4 : exists[order[j]]) =>
            (pc = "load" \/ loaded_path # NotCalled)

C1_Witness ==
    /\ loaded_path = "../penguins.csv"
    /\ ~ exists["../penguins_raw.csv"]
    /\ ~ exists["penguins.csv"]
    /\ exists["penguins_raw.csv"]

\* C2: when none of the four candidate paths exists, main returns after the
\* not-found message: no stage function is called and no output file is written.
C2_AllAbsentAborts ==
    (pc # "resolve" /\ \A p \in CandidatePaths : ~ exists[p]) =>
        /\ pc = "returned"
        /\ calls = <<>>
        /\ fs_out = NoFile
        /\ out = <<"Raw data file not found">>
        /\ uncaught = ""

C2_Witness ==
    /\ pc = "returned"
    /\ \A p \in CandidatePaths : ~ exists[p]

\* C3: the stages run in the order load, preprocess, save, each at most once,
\* and after a load that returned None neither preprocess nor save runs.
C3_StagesInOrderShortCircuit ==
    LET stages == <<"load", "preprocess", "save">>
    IN /\ Len(calls) <= 3
       /\ \A i \in 1..Len(calls) : calls[i] = stages[i]
       /\ (loaded_path # NotCalled /\ df_raw = None) =>
            /\ calls = <<"load">>
            /\ pc = "returned"
            /\ fs_out = NoFile
            /\ df_processed = None

C3_Witness ==
    /\ readOutcome = "FileNotFoundError"
    /\ exists[loaded_path]
    /\ calls = <<"load">>
    /\ pc = "returned"

\* C4: load_data never lets an exception out; a missing file and any other
\* read error each return None with their own message, and only a successful
\* read returns a table.
C4_LoadDataReportsFailures ==
    readOutcome # NotCalled =>
        /\ ~ (pc = "crashed" /\ calls = <<"load">>)
        /\ (readOutcome = "ok") <=> (df_raw # None)
        /\ readOutcome = "ok" =>
            /\ "File not found" \notin Range(out)
            /\ "Error loading data" \notin Range(out)
        /\ readOutcome = "FileNotFoundError" =>
            /\ "File not found" \in Range(out)
            /\ "Error loading data" \notin Range(out)
        /\ readOutcome = "Exception" =>
            /\ "Error loading data" \in Range(out)
            /\ "File not found" \notin Range(out)

C4_Witness ==
    /\ readOutcome = "Exception"
    /\ df_raw = None
    /\ pc = "returned"

\* C5: the table preprocess_penguins_data returns holds exactly the input rows
\* with no missing field in any column, in their original order, and no
\* missing value is left in it.
C5_RowsWithoutMissingKept ==
    pc = "save" =>
        LET n == Len(df_raw.data)
            complete == {i \in 1..n : \A c \in df_raw.columns : df_raw.data[i][c] # NaN}
            m == Len(df_processed.data)
        IN /\ m = n - Cardinality((1..n) \ complete)
           /\ (complete = 1..n) => m = n
           /\ {df_processed.index[j] + 1 : j \in 1..m} = complete
           /\ \A j \in 1..(m - 1) : df_processed.index[j] < df_processed.index[j + 1]
           /\ \A j \in 1..m :
                /\ \A c \in df_raw.columns \ NumericalColumns :
                     /\ df_processed.data[j][c] # NaN
                     /\ df_processed.data[j][c] = df_raw.data[df_processed.index[j] + 1][c]
                /\ \A c \in NumericalColumns : df_processed.data[j][c].den2 # 0

C5_Witness ==
    /\ pc = "save"
    /\ Len(df_raw.data) = 2
    /\ "year" \in df_raw.columns
    /\ df_raw.data[1]["year"] = NaN
    /\ df_processed.index = <<1>>

\* C6: for species, island and sex the codes of the *_encoded column are a
\* bijection between the column's distinct strings and 0..k-1, and the string
\* column itself is unchanged.
C6_EncodingIsDenseBijection ==
    pc = "save" =>
        \A pair \in {<<"species", "species_encoded">>, <<"island", "island_encoded">>,
                     <<"sex", "sex_encoded">>} :
            LET rows == 1..Len(df_processed.data)
                str(j) == df_processed.data[j][pair[1]]
                code(j) == df_processed.data[j][pair[2]]
                k == Cardinality({str(j) : j \in rows})
            IN /\ {code(j) : j \in rows} = 0..(k - 1)
               /\ \A i, j \in rows : (code(i) = code(j)) <=> (str(i) = str(j))
               /\ \A j \in rows :
                    str(j) = df_raw.data[df_processed.index[j] + 1][pair[1]]

C6_Witness ==
    /\ pc = "save"
    /\ Len(df_processed.data) = 2
    /\ df_processed.data[1]["sex"] = 2
    /\ df_processed.data[2]["sex"] = 1
    /\ df_processed.data[1]["sex_encoded"] = 1
    /\ df_processed.data[2]["sex_encoded"] = 0

\* C7: save_processed_data never lets an exception out; it returns True exactly
\* when the write succeeded, and on a write failure reports it and returns
\* False with main still running.
C7_SaveReturnsWriteSuccess ==
    writeOutcome # NotCalled =>
        /\ pc \in {"complete", "returned"}
        /\ uncaught = ""
        /\ saveRet <=> (writeOutcome = "ok")
        /\ saveRet =>
            /\ fs_out = [columns |-> df_processed.columns, data |-> df_processed.data]
            /\ "Processed data saved to" \in Range(out)
        /\ ~ saveRet =>
            /\ "Error saving data" \in Range(out)
            /\ "Processed data saved to" \notin Range(out)

C7_Witness ==
    /\ writeOutcome = "PermissionError"
    /\ saveRet = FALSE
    /\ pc = "returned"

\* C8: a failure raised inside preprocess_penguins_data leaves main uncaught;
\* in such a run save_processed_data is not called, no output file is written
\* and no completion message is printed.
C8_PreprocessFailureIsFatal ==
    LET failed == Len(calls) >= 2 /\ calls[2] = "preprocess" /\ df_processed = None
    IN /\ failed =>
            /\ pc = "crashed"
            /\ uncaught \in {"KeyError", "ValueError"}
            /\ calls = <<"load", "preprocess">>
            /\ fs_out = NoFile
            /\ "Preprocessing Pipeline Completed Successfully" \notin Range(out)
       /\ pc = "crashed" => failed

C8_Witness ==
    /\ pc = "crashed"
    /\ uncaught = "KeyError"
    /\ "island" \notin df_raw.columns
    /\ calls = <<"load", "preprocess">>

\* C9: a numeric column with zero variance over the kept rows comes out of the
\* scale step with all values zero, and no numeric value of the returned table
\* is the result of a division by zero.
C9_ZeroVarianceGuarded ==
    pc = "save" =>
        \A c \in {"bill_length_mm", "bill_depth_mm", "flipper_length_mm", "body_mass_g"} :
            LET rows == 1..Len(df_processed.data)
                raw(j) == df_raw.data[df_processed.index[j] + 1][c]
            IN /\ \A j \in rows : df_processed.data[j][c].den2 > 0
               /\ (\A i, j \in rows : raw(i) = raw(j)) =>
                    \A j \in rows : df_processed.data[j][c].num = 0

C9_Witness ==
    /\ pc = "save"
    /\ Len(df_processed.data) = 2
    /\ df_raw.data[1]["body_mass_g"] = df_raw.data[2]["body_mass_g"]
    /\ df_raw.data[1]["bill_depth_mm"] # df_raw.data[2]["bill_depth_mm"]
    /\ df_processed.data[1]["body_mass_g"].num = 0
    /\ df_processed.data[1]["bill_depth_mm"].num # 0

\* C10: main prints the completion messages only in runs where
\* save_processed_data returned True.
C10_CompletionOnlyAfterSuccessfulSave ==
    "Preprocessing Pipeline Completed Successfully" \in Range(out) => saveRet

====
